---- MODULE Spec2Model ----
(***************************************************************************)
(* w800rf32_security: the 4-byte frame decoders (security sensor, X10),    *)
(* the frame routers and the serial acquisition workers of                 *)
(*   - the Home Assistant component   (src/__init__.py, "setup")           *)
(*   - the embedded W800rf32 library  (src/w800lib/__init__.py, "lib")     *)
(* Python lists are 0-based; At(data, i) reads data[i].                    *)
(***************************************************************************)
EXTENDS Integers, Sequences, FiniteSets, TLC

VARIABLES
    impl,           \* which pipeline this behaviour runs: "setup" or "lib"
    serial,         \* connection_state['serial'] / self._serial: "None", "open", "closed"
    running,        \* connection_state['running'] / self._running
    thread,         \* connection_state['thread'] / self._thread: 0 is None, else an index of workers
    workers,        \* every thread started so far: its position in the read loop
    event_callback, \* W800rf32.event_callback is not None
    callerPc,       \* the caller's position inside disconnect / stop_connection
    lastOp,         \* the caller's last completed call and its outcome
    fired,          \* setup: the listen_once hooks that have fired
    last,           \* what the latest step ended: the worker, the outcome of its read,
                    \* the bytes, whether the decoders were called, the sink calls
                    \* made, whether the sink raised; NoRead after any other step
    pending,        \* the workers holding a full frame not yet handled, in read order
    frame,          \* decoder specifications: the bytes handed to the router
    routed,         \* decoder specifications: TRUE once the router has run
    emitted,        \* decoder specifications: the sink calls the router made
    sensors         \* binary_sensor.py: the entities added by async_setup_platform

connVars == <<serial, running, thread>>

lifeVars == <<serial, running, thread, workers, event_callback, callerPc, lastOp,
              fired, last, pending>>

decVars == <<frame, routed, emitted>>

vars == <<impl, lifeVars, decVars, sensors>>

(***************************************************************************)
(* Python values                                                           *)
(***************************************************************************)
None == [none |-> TRUE]

Byte == 0..255

At(data, i) == data[i + 1]

\* x >> n and x << n on non-negative ints
ShiftRight(x, n) == x \div (2 ^ n)

ShiftLeft(x, n) == x * (2 ^ n)

\* a & b, a | b, a ^ b on non-negative ints, bit by bit
RECURSIVE BitAnd(_, _)
BitAnd(a, b) ==
    IF a = 0 \/ b = 0 THEN 0
    ELSE ((a % 2) * (b % 2)) + 2 * BitAnd(a \div 2, b \div 2)

RECURSIVE BitOr(_, _)
BitOr(a, b) ==
    IF a = 0 THEN b
    ELSE IF b = 0 THEN a
    ELSE (IF (a % 2) + (b % 2) > 0 THEN 1 ELSE 0) + 2 * BitOr(a \div 2, b \div 2)

RECURSIVE BitXor(_, _)
BitXor(a, b) ==
    IF a = 0 THEN b
    ELSE IF b = 0 THEN a
    ELSE (((a % 2) + (b % 2)) % 2) + 2 * BitXor(a \div 2, b \div 2)

\* a & ~m for non-negative a, m (Python's ~m is the infinite two's complement)
RECURSIVE BitAndNot(_, _)
BitAndNot(a, m) ==
    IF a = 0 THEN 0
    ELSE ((a % 2) * (1 - (m % 2))) + 2 * BitAndNot(a \div 2, m \div 2)

\* bool(x) of an int
Bool(x) == x # 0

\* truth value of a parser result: None is false, a non-empty dict is true
Truthy(v) == v # None

Reverse(s) == [i \in 1..Len(s) |-> s[Len(s) + 1 - i]]

(***************************************************************************)
(* str.format conversions                                                  *)
(***************************************************************************)
HexChars == <<"0", "1", "2", "3", "4", "5", "6", "7",
              "8", "9", "a", "b", "c", "d", "e", "f">>

DecChars == <<"0", "1", "2", "3", "4", "5", "6", "7", "8", "9">>

\* the digits of n in the given base, most significant first, no padding
RECURSIVE Digits(_, _, _)
Digits(n, base, chars) ==
    IF n < base THEN <<chars[n + 1]>>
    ELSE Digits(n \div base, base, chars) \o <<chars[(n % base) + 1]>>

RECURSIVE ZeroPad(_, _)
ZeroPad(s, width) == IF Len(s) >= width THEN s ELSE ZeroPad(<<"0">> \o s, width)

\* "{:02x}".format(n)
Format02x(n) == ZeroPad(Digits(n, 16, HexChars), 2)

\* "{0:08b}".format(n)
Format08b(n) == ZeroPad(Digits(n, 2, DecChars), 8)

\* "{}".format(n) of a non-negative int
FormatInt(n) == Digits(n, 10, DecChars)

\* int(s, 2)
RECURSIVE IntBase2(_)
IntBase2(s) ==
    IF Len(s) = 0 THEN 0
    ELSE 2 * IntBase2(SubSeq(s, 1, Len(s) - 1)) + (IF s[Len(s)] = "1" THEN 1 ELSE 0)

LowerChars == [c \in {"A", "B", "C", "D", "E", "F", "G", "H",
                      "I", "J", "K", "L", "M", "N", "O", "P"} |->
    CASE c = "A" -> "a" [] c = "B" -> "b" [] c = "C" -> "c" [] c = "D" -> "d"
      [] c = "E" -> "e" [] c = "F" -> "f" [] c = "G" -> "g" [] c = "H" -> "h"
      [] c = "I" -> "i" [] c = "J" -> "j" [] c = "K" -> "k" [] c = "L" -> "l"
      [] c = "M" -> "m" [] c = "N" -> "n" [] c = "O" -> "o" [] c = "P" -> "p"]

\* str.lower() of a device id: a house letter followed by decimal digits
Lower(s) == [i \in 1..Len(s) |-> IF s[i] \in DOMAIN LowerChars THEN LowerChars[s[i]] ELSE s[i]]

(***************************************************************************)
(* src/__init__.py: SecuritySensorParser                                   *)
(***************************************************************************)
\* variant of is_security_packet: byte 1 is masked without the shift
is_security_packet_unshifted(data) ==
    IF Len(data) # 4 THEN FALSE
    ELSE LET upper_nibble_0 == BitAnd(ShiftRight(At(data, 0), 4), \h0F)
             upper_nibble_1 == BitAnd(At(data, 1), \h0F)
         IN  upper_nibble_0 = upper_nibble_1

is_security_packet(data) ==
    IF Len(data) # 4 THEN FALSE
    ELSE LET upper_nibble_0 == BitAnd(ShiftRight(At(data, 0), 4), \h0F)
             upper_nibble_1 == BitAnd(ShiftRight(At(data, 1), 4), \h0F)
         IN  upper_nibble_0 = upper_nibble_1

\* variant of parse: the low nibble of byte 0 is not shifted into the high
\* nibble of the address
parse_noshift(data) ==
    IF ~is_security_packet(data) THEN None
    ELSE IF Bool(BitAndNot(At(data, 2), \h85)) THEN None
    ELSE LET address == BitOr(BitAnd(At(data, 0), \h0F), BitAnd(At(data, 1), \h0F))
             low_battery == Bool(BitAnd(At(data, 2), \h01))
             min_delay == ~Bool(BitAnd(At(data, 2), \h10))
             byte2 == At(data, 2)
             contact_state == IF Bool(BitAnd(byte2, \h80)) THEN "closed" ELSE "open"
         IN  [device_type |-> "ds10a",
              address |-> Format02x(address),
              state |-> contact_state,
              low_battery |-> low_battery,
              min_delay |-> min_delay]

\* variant of parse: the function byte is not validated against mask 0x85
parse_nomask(data) ==
    IF ~is_security_packet(data) THEN None
    ELSE LET address == BitOr(ShiftLeft(BitAnd(At(data, 0), \h0F), 4),
                              BitAnd(At(data, 1), \h0F))
             low_battery == Bool(BitAnd(At(data, 2), \h01))
             min_delay == ~Bool(BitAnd(At(data, 2), \h10))
             byte2 == At(data, 2)
             contact_state == IF Bool(BitAnd(byte2, \h80)) THEN "closed" ELSE "open"
         IN  [device_type |-> "ds10a",
              address |-> Format02x(address),
              state |-> contact_state,
              low_battery |-> low_battery,
              min_delay |-> min_delay]

parse(data) ==
    IF ~is_security_packet(data) THEN None
    ELSE IF Bool(BitAndNot(At(data, 2), \h85)) THEN None
    ELSE LET address == BitOr(ShiftLeft(BitAnd(At(data, 0), \h0F), 4),
                              BitAnd(At(data, 1), \h0F))
             low_battery == Bool(BitAnd(At(data, 2), \h01))
             min_delay == ~Bool(BitAnd(At(data, 2), \h10))
             byte2 == At(data, 2)
             contact_state == IF Bool(BitAnd(byte2, \h80)) THEN "closed" ELSE "open"
         IN  [device_type |-> "ds10a",
              address |-> Format02x(address),
              state |-> contact_state,
              low_battery |-> low_battery,
              min_delay |-> min_delay]

(***************************************************************************)
(* src/w800lib/security_parser.py: SecuritySensorParser                    *)
(***************************************************************************)
lib_is_security_packet(data) ==
    IF Len(data) # 4 THEN FALSE
    ELSE LET upper_nibble_0 == BitAnd(ShiftRight(At(data, 0), 4), \h0F)
             upper_nibble_1 == BitAnd(ShiftRight(At(data, 1), 4), \h0F)
         IN  upper_nibble_0 = upper_nibble_1

lib_parse(data) ==
    IF ~lib_is_security_packet(data) THEN None
    ELSE LET address == BitOr(ShiftLeft(BitAnd(At(data, 0), \h0F), 4),
                              BitAnd(At(data, 1), \h0F))
             low_battery == Bool(BitAnd(At(data, 2), \h01))
             min_delay == ~Bool(BitAnd(At(data, 1), \h10))
             byte2 == At(data, 2)
             contact_state == IF Bool(BitAnd(byte2, \h80)) THEN "closed" ELSE "open"
         IN  [device_type |-> "ds10a",
              address |-> Format02x(address),
              state |-> contact_state,
              low_battery |-> low_battery,
              min_delay |-> min_delay]

(***************************************************************************)
(* src/__init__.py: X10Event                                               *)
(***************************************************************************)
\* variant of hcodeDict: the key of "B" mistyped as the key of "A"
hcodeDict_typo ==
    (\b0110 :> "A" @@ \b0110 :> "B" @@ \b0010 :> "C" @@ \b1010 :> "D" @@
     \b0001 :> "E" @@ \b1001 :> "F" @@ \b0101 :> "G" @@ \b1101 :> "H" @@
     \b0111 :> "I" @@ \b1111 :> "J" @@ \b0011 :> "K" @@ \b1011 :> "L" @@
     \b0000 :> "M" @@ \b1000 :> "N" @@ \b0100 :> "O" @@ \b1100 :> "P")

hcodeDict ==
    (\b0110 :> "A" @@ \b1110 :> "B" @@ \b0010 :> "C" @@ \b1010 :> "D" @@
     \b0001 :> "E" @@ \b1001 :> "F" @@ \b0101 :> "G" @@ \b1101 :> "H" @@
     \b0111 :> "I" @@ \b1111 :> "J" @@ \b0011 :> "K" @@ \b1011 :> "L" @@
     \b0000 :> "M" @@ \b1000 :> "N" @@ \b0100 :> "O" @@ \b1100 :> "P")

\* variant of reverse_bits_8: the binary string is not padded to 8 digits
reverse_bits_8_unpadded(byte) ==
    LET xb == Digits(byte, 2, DecChars)
    IN  IntBase2(Reverse(xb))

\* lines 106-109: a byte to its 8 binary digits ("{0:08b}"), the string
\* reversed ([::-1]), the result read back in base 2 (int(.., 2)); the
\* method does this to data[0] (xb3, b3) and to data[2] (xb1, b1)
reverse_bits_8(byte) ==
    LET xb == Format08b(byte)
    IN  IntBase2(Reverse(xb))

\* variant of _get_x10code_and_cmd: no `unit_number += 1` for command 0x11
_get_x10code_and_cmd_unadjusted(data) ==
    LET b3 == reverse_bits_8(At(data, 0))
        b1 == reverse_bits_8(At(data, 2))
    IN  IF BitAnd(b3, \h0F) \notin DOMAIN hcodeDict THEN [raised |-> "KeyError"]
        ELSE
        LET house_code == hcodeDict[BitAnd(b3, \h0F)]
            x == ShiftRight(b1, 3)
            x1 == ShiftLeft(BitAnd(b1, \h02), 1)
            y == ShiftRight(BitAnd(b3, \h20), 2)
            unit_number == x + x1 + y + 1
            command == IF b1 = \h19 THEN "Off"
                       ELSE IF b1 = \h11 THEN "On"
                       ELSE IF BitAnd(b1, \h05) = 4 THEN "Off"
                       ELSE IF BitAnd(b1, \h05) = 0 THEN "On"
                       ELSE "None"
            unit_final == unit_number
        IN  [raised |-> "no",
             device |-> <<house_code>> \o FormatInt(unit_final),
             command |-> command,
             house_code |-> house_code,
             unit_number |-> unit_final]

\* the object's attributes device and command; house_code and unit_number are
\* the method's locals, kept for reference.  A KeyError of the table lookup
\* is reported as raised = "KeyError".
_get_x10code_and_cmd(data) ==
    LET b3 == reverse_bits_8(At(data, 0))
        b1 == reverse_bits_8(At(data, 2))
    IN  IF BitAnd(b3, \h0F) \notin DOMAIN hcodeDict THEN [raised |-> "KeyError"]
        ELSE
        LET house_code == hcodeDict[BitAnd(b3, \h0F)]
            x == ShiftRight(b1, 3)
            x1 == ShiftLeft(BitAnd(b1, \h02), 1)
            y == ShiftRight(BitAnd(b3, \h20), 2)
            unit_number == x + x1 + y + 1
            command == IF b1 = \h19 THEN "Off"
                       ELSE IF b1 = \h11 THEN "On"
                       ELSE IF BitAnd(b1, \h05) = 4 THEN "Off"
                       ELSE IF BitAnd(b1, \h05) = 0 THEN "On"
                       ELSE "None"
            unit_final == IF b1 = \h11 THEN unit_number + 1 ELSE unit_number
        IN  [raised |-> "no",
             device |-> <<house_code>> \o FormatInt(unit_final),
             command |-> command,
             house_code |-> house_code,
             unit_number |-> unit_final]

\* variant of X10Event: the two checksum tests joined by `and`
X10Event_and(data) ==
    IF Len(data) # 4 THEN [raised |-> "ValueError"]
    ELSE IF At(data, 0) + At(data, 1) # \hFF /\ At(data, 2) + At(data, 3) # \hFF
         THEN [raised |-> "ValueError"]
    ELSE _get_x10code_and_cmd(data)

\* X10Event(data): the constructed object, or the exception raised
X10Event(data) ==
    IF Len(data) # 4 THEN [raised |-> "ValueError"]
    ELSE IF At(data, 0) + At(data, 1) # \hFF \/ At(data, 2) + At(data, 3) # \hFF
         THEN [raised |-> "ValueError"]
    ELSE _get_x10code_and_cmd(data)

(***************************************************************************)
(* src/w800lib/__init__.py: W800rf32 frame handling                        *)
(***************************************************************************)
\* chr(65 + n)
Chr65 == <<"A", "B", "C", "D", "E", "F", "G", "H",
           "I", "J", "K", "L", "M", "N", "O", "P">>

_parse_standard_x10(data) ==
    LET byte0 == At(data, 0)
        byte1 == At(data, 1)
        byte2 == At(data, 2)
        byte3 == At(data, 3)
    IN  IF byte0 # BitXor(byte1, \hFF) \/ byte2 # BitXor(byte3, \hFF) THEN None
        ELSE
        LET house_code == Chr65[ShiftRight(BitAnd(byte0, \hF0), 4) + 1]
            unit == BitAnd(byte0, \h0F)
        IN  IF Bool(BitAnd(byte2, \h20))
            THEN [device_type |-> "x10",
                  house_code |-> house_code,
                  command |-> IF Bool(BitAnd(byte2, \h10)) THEN "bright" ELSE "dim"]
            ELSE [device_type |-> "x10",
                  house_code |-> house_code,
                  command |-> IF Bool(BitAnd(byte2, \h08)) THEN "on" ELSE "off",
                  unit |-> unit + 1]

_process_packet(data) ==
    IF Len(data) # 4 THEN None
    ELSE LET security_event == lib_parse(data)
         IN  IF Truthy(security_event) THEN security_event
             ELSE _parse_standard_x10(data)

(***************************************************************************)
(* src/__init__.py: the frame handling of setup.read_loop                  *)
(***************************************************************************)
\* DOMAIN = "w800rf32_security"; SIGNAL_SECURITY_EVENT = f"{DOMAIN}_security"
SIGNAL_SECURITY_EVENT == <<"w800rf32_security", "_security">>

\* W800RF32_DEVICE.format(device_id)
W800RF32_DEVICE(device_id) == <<"w800rf32_">> \o device_id

\* variant of read_loop_dispatch: the test of security_event inverted
read_loop_dispatch_inverted(data) ==
    LET security_event == parse(data)
    IN  IF ~Truthy(security_event)
        THEN <<[signal |-> SIGNAL_SECURITY_EVENT, event |-> security_event]>>
        ELSE LET x10_event == X10Event(data)
             IN  IF x10_event.raised # "no" THEN <<>>
                 ELSE LET device_id == Lower(x10_event.device)
                      IN  <<[signal |-> W800RF32_DEVICE(device_id),
                             event |-> [device |-> x10_event.device,
                                        command |-> x10_event.command]]>>

\* the dispatcher_send calls one full frame causes, in order
read_loop_dispatch(data) ==
    LET security_event == parse(data)
    IN  IF Truthy(security_event)
        THEN <<[signal |-> SIGNAL_SECURITY_EVENT, event |-> security_event]>>
        ELSE LET x10_event == X10Event(data)
             IN  IF x10_event.raised # "no" THEN <<>>
                 ELSE LET device_id == Lower(x10_event.device)
                      IN  <<[signal |-> W800RF32_DEVICE(device_id),
                             event |-> [device |-> x10_event.device,
                                        command |-> x10_event.command]]>>

\* the event_callback calls one full frame causes in W800rf32._read_loop
_read_loop_callback(data) ==
    LET event == _process_packet(data)
    IN  IF Truthy(event) /\ event_callback THEN <<[event |-> event]>> ELSE <<>>

(***************************************************************************)
(* Decoder specifications: one frame, routed once by the chosen pipeline   *)
(***************************************************************************)
\* (b0, b1) samples: security candidates, X10 checksum pairs, neither
HeadSamples == {<<\h56, \h55>>, <<\h00, \h00>>, <<\hF3, \hFC>>,
                <<\h06, \hF9>>, <<\h64, \h9B>>, <<\h06, \hFA>>}

\* (b2, b3) samples: security function bytes and X10 command bytes
TailSamples == {<<\h81, \h00>>, <<\h00, \hFF>>, <<\h88, \h77>>, <<\h98, \h67>>,
                <<\h80, \h7F>>}

\* the choices of b1 for a byte 0: the 16 bytes sharing its high nibble,
\* its checksum partner, a fixed byte
HeadChoice(b0, k) ==
    IF k < 16 THEN 16 * (b0 \div 16) + k
    ELSE IF k = 16 THEN \hFF - b0
    ELSE \h55

\* the choices of b3 for a byte 2: its checksum partner, a fixed byte
TailChoice(b2, k) == IF k = 0 THEN \hFF - b2 ELSE \h00

\* every byte 2 under the sampled heads and every byte 0 under the sampled tails
DecodeFrames(x) ==
    {<<h[1], h[2], x, TailChoice(x, k)>> : h \in HeadSamples, k \in 0..1}
    \cup
    {<<x, HeadChoice(x, k), t[1], t[2]>> : k \in 0..17, t \in TailSamples}

\* every (b0, b1) pair, before an X10 command and before a function byte
\* outside mask 0x85, and every (b2, b3) pair
PairFrames(x, y) == {<<x, y, \h00, \hFF>>, <<x, y, \h88, \h77>>, <<\h06, \hF9, x, y>>}

NoRead == [worker |-> 0, outcome |-> "none", data |-> <<>>, decoded |-> FALSE,
           calls |-> <<>>, raised |-> FALSE, overtook |-> FALSE]

IdleConnection ==
    /\ serial = "None"
    /\ running = FALSE
    /\ thread = 0
    /\ workers = <<>>
    /\ event_callback = TRUE
    /\ callerPc = "idle"
    /\ lastOp = "none"
    /\ fired = {}
    /\ last = NoRead
    /\ pending = <<>>

InitDecode ==
    /\ impl \in {"setup", "lib"}
    /\ IdleConnection
    /\ \E x \in Byte : frame \in DecodeFrames(x)
    /\ routed = FALSE
    /\ emitted = <<>>
    /\ sensors = <<>>

InitPairs ==
    /\ impl \in {"setup", "lib"}
    /\ IdleConnection
    /\ \E x \in Byte, y \in Byte : frame \in PairFrames(x, y)
    /\ routed = FALSE
    /\ emitted = <<>>
    /\ sensors = <<>>

\* setup.read_loop, lines 163-187, on one full frame
setup_route ==
    /\ impl = "setup"
    /\ ~routed
    /\ routed' = TRUE
    /\ emitted' = read_loop_dispatch(frame)
    /\ UNCHANGED <<impl, sensors, lifeVars, frame>>

\* W800rf32._read_loop, lines 86-91, on one full frame
lib_route ==
    /\ impl = "lib"
    /\ ~routed
    /\ routed' = TRUE
    /\ emitted' = _read_loop_callback(frame)
    /\ UNCHANGED <<impl, sensors, lifeVars, frame>>

NextDecode == setup_route \/ lib_route

SpecDecode == InitDecode /\ [][NextDecode]_vars

SpecPairs == InitPairs /\ [][NextDecode]_vars

(***************************************************************************)
(* Reading the sink calls and the frame bits                               *)
(***************************************************************************)
\* bit i of x, by arithmetic
Bit(x, i) == (x \div (2 ^ i)) % 2

IsComplement(a, b) == \A i \in 0..7 : Bit(a, i) # Bit(b, i)

IsSecurityCall(c) == c.event # None /\ "address" \in DOMAIN c.event

IsX10Call(c) == c.event # None /\ "address" \notin DOMAIN c.event

\* the security parser of the pipeline in use, applied to the frame
ParserResult == IF impl = "setup" THEN parse(frame) ELSE lib_parse(frame)

\* byte 2 with its bit order reversed, by arithmetic
R2 == LET b == At(frame, 2) IN
    128 * Bit(b, 0) + 64 * Bit(b, 1) + 32 * Bit(b, 2) + 16 * Bit(b, 3)
    + 8 * Bit(b, 4) + 4 * Bit(b, 5) + 2 * Bit(b, 6) + Bit(b, 7)

ChecksumFrame == At(frame, 0) + At(frame, 1) = 255 /\ At(frame, 2) + At(frame, 3) = 255

(***************************************************************************)
(* C1: a routed frame causes at most one sink call; when the security      *)
(* parser returns an event for the frame, that event is the one call made, *)
(* and no X10 event is emitted for the frame.                              *)
(***************************************************************************)
C1_SecurityPrecedence ==
    routed =>
        /\ Len(emitted) <= 1
        /\ ParserResult # None =>
              /\ Len(emitted) = 1
              /\ emitted[1].event = ParserResult
              /\ \A i \in 1..Len(emitted) : ~IsX10Call(emitted[i])

C1_Witness ==
    /\ routed
    /\ ParserResult # None
    /\ Len(emitted) = 1
    /\ IsSecurityCall(emitted[1])

(***************************************************************************)
(* C2: a frame that passes the X10 checksum but whose bit-reversed byte 2  *)
(* is none of 0x19, 0x11, (r2 & 5) = 4, (r2 & 5) = 0 makes the             *)
(* construction of X10Event fail, and setup's read loop dispatches nothing *)
(* for it.                                                                 *)
(***************************************************************************)
UnsupportedCommand ==
    /\ R2 # 25
    /\ R2 # 17
    /\ ~(Bit(R2, 0) = 0 /\ Bit(R2, 2) = 1)
    /\ ~(Bit(R2, 0) = 0 /\ Bit(R2, 2) = 0)

C2_UnsupportedCommandDropped ==
    (impl = "setup" /\ routed /\ ChecksumFrame /\ UnsupportedCommand) =>
        /\ X10Event(frame).raised # "no"
        /\ emitted = <<>>

(***************************************************************************)
(* C3: no security event is delivered for a frame whose byte 2 has a bit   *)
(* set outside mask 0x85, in either pipeline.                              *)
(***************************************************************************)
OutsideMask85 == \E i \in {1, 3, 4, 5, 6} : Bit(At(frame, 2), i) = 1

C3_MaskRejects ==
    (routed /\ OutsideMask85) =>
        /\ ParserResult = None
        /\ \A i \in 1..Len(emitted) : ~IsSecurityCall(emitted[i])

(***************************************************************************)
(* C9: an X10 event is emitted only for a frame whose byte 1 is the        *)
(* bitwise complement of byte 0 and whose byte 3 is the bitwise complement *)
(* of byte 2; the sum test of X10Event and the XOR test of                 *)
(* _parse_standard_x10 accept the same frames.                             *)
(***************************************************************************)
C9_ChecksumIsComplement ==
    /\ (X10Event(frame).raised # "ValueError") <=> (_parse_standard_x10(frame) # None)
    /\ (routed /\ \E i \in 1..Len(emitted) : IsX10Call(emitted[i])) =>
          /\ IsComplement(At(frame, 0), At(frame, 1))
          /\ IsComplement(At(frame, 2), At(frame, 3))

C9_Witness ==
    /\ routed
    /\ Len(emitted) = 1
    /\ IsX10Call(emitted[1])
    /\ At(frame, 2) # 0

(***************************************************************************)
(* C10: the event of an accepted security frame has device_type "ds10a",   *)
(* the address made of the low nibbles of byte 0 and byte 1 as two         *)
(* lowercase hex digits, low_battery = bit 0 of byte 2, and state closed   *)
(* exactly when bit 7 of byte 2 is set.                                    *)
(***************************************************************************)
C10_SecurityFields ==
    (routed /\ Len(emitted) > 0 /\ IsSecurityCall(emitted[1])) =>
        LET e == emitted[1].event IN
        /\ e.device_type = "ds10a"
        /\ e.address = <<HexChars[(At(frame, 0) % 16) + 1], HexChars[(At(frame, 1) % 16) + 1]>>
        /\ e.low_battery = (Bit(At(frame, 2), 0) = 1)
        /\ e.state = (IF Bit(At(frame, 2), 7) = 1 THEN "closed" ELSE "open")
        /\ e.state \in {"open", "closed"}

C10_Witness ==
    /\ routed
    /\ Len(emitted) = 1
    /\ IsSecurityCall(emitted[1])
    /\ emitted[1].event.address = <<"a", "c">>
    /\ emitted[1].event.state = "closed"
    /\ emitted[1].event.low_battery

(***************************************************************************)
(* C11: in every security event emitted, by either security parser,        *)
(* min_delay is true exactly when bit 4 of byte 2 of the frame is clear,   *)
(* whatever byte 1 is.                                                     *)
(***************************************************************************)
C11_MinDelayFromByte2 ==
    (routed /\ Len(emitted) > 0 /\ IsSecurityCall(emitted[1])) =>
        (emitted[1].event.min_delay <=> (Bit(At(frame, 2), 4) = 0))

(***************************************************************************)
(* C12: for every frame X10Event accepts, the unit number of the decoded   *)
(* device is one of 1..16.                                                 *)
(***************************************************************************)
C12_UnitInRange ==
    (impl = "setup" /\ routed /\ X10Event(frame).raised = "no") =>
        /\ X10Event(frame).unit_number \in 1..16
        /\ \A i \in 1..Len(emitted) :
              IsX10Call(emitted[i]) =>
                  \E u \in 1..16 : Tail(emitted[i].event.device) = FormatInt(u)

(***************************************************************************)
(* C15: the 8-bit bit reversal of the X10 decoder is its own inverse:      *)
(* reversing the reversal of a byte of the frame gives the byte back.      *)
(***************************************************************************)
C15_ReverseSelfInverse ==
    \A i \in {0, 2} :
        /\ reverse_bits_8(At(frame, i)) \in Byte
        /\ reverse_bits_8(reverse_bits_8(At(frame, i))) = At(frame, i)

C15_Witness ==
    /\ routed
    /\ Len(emitted) = 1
    /\ IsX10Call(emitted[1])
    /\ At(frame, 0) = 176
    /\ reverse_bits_8(At(frame, 0)) = 13
    /\ reverse_bits_8(At(frame, 2)) # At(frame, 2)

(***************************************************************************)
(* C16: no frame is both a security candidate (is_security_packet) and     *)
(* accepted by the X10 checksum; a frame whose bytes 0 and 1 share their   *)
(* high nibble and that the security parser rejects causes no X10 event.   *)
(***************************************************************************)
SameHighNibble == At(frame, 0) \div 16 = At(frame, 1) \div 16

C16_CandidateNeverX10 ==
    /\ ~(is_security_packet(frame) /\ X10Event(frame).raised # "ValueError")
    /\ ~(lib_is_security_packet(frame) /\ _parse_standard_x10(frame) # None)
    /\ (routed /\ SameHighNibble /\ ParserResult = None) =>
          \A i \in 1..Len(emitted) : ~IsX10Call(emitted[i])

C16_Witness ==
    /\ impl = "setup"
    /\ routed
    /\ is_security_packet(frame)
    /\ At(frame, 2) + At(frame, 3) = 255
    /\ parse(frame) = None
    /\ emitted = <<>>

(***************************************************************************)
(* C17: the house-code table maps the sixteen 4-bit codes one-to-one onto  *)
(* the letters A..P; for every frame passing the X10 checksum the lookup   *)
(* succeeds and gives the letter listed for the low nibble of the          *)
(* bit-reversed byte 0.                                                    *)
(***************************************************************************)
\* the letters listed for the codes 0, 1, ..., 15
HouseLetters == <<"M", "E", "C", "K", "O", "G", "A", "I",
                  "N", "F", "D", "L", "P", "H", "B", "J">>

\* byte 0 with its bit order reversed, by arithmetic
R0 == LET b == At(frame, 0) IN
    128 * Bit(b, 0) + 64 * Bit(b, 1) + 32 * Bit(b, 2) + 16 * Bit(b, 3)
    + 8 * Bit(b, 4) + 4 * Bit(b, 5) + 2 * Bit(b, 6) + Bit(b, 7)

C17_HouseCodeLookupTotal ==
    /\ DOMAIN hcodeDict = 0..15
    /\ \A c \in 0..15 : hcodeDict[c] = HouseLetters[c + 1]
    /\ Cardinality({hcodeDict[c] : c \in 0..15}) = 16
    /\ (impl = "setup" /\ routed /\ ChecksumFrame) =>
          /\ X10Event(frame).raised = "no"
          /\ X10Event(frame).house_code = HouseLetters[(R0 % 16) + 1]
          /\ Len(emitted) = 1
          /\ IsX10Call(emitted[1])
          /\ Head(emitted[1].event.device) = HouseLetters[(R0 % 16) + 1]

C17_Witness ==
    /\ impl = "setup"
    /\ routed
    /\ ChecksumFrame
    /\ R0 % 16 = 15
    /\ Len(emitted) = 1
    /\ Head(emitted[1].event.device) = "J"

(***************************************************************************)
(* C18: for any byte 0, the checksum-valid frame whose bit-reversed byte 2 *)
(* is 0x11 and the one whose bit-reversed byte 2 is 0x19 decode to the     *)
(* same device (same house code, same unit number), the first with         *)
(* command On, the second with command Off.                                *)
(***************************************************************************)
\* the frame with the same bytes 0 and 1 and the given byte 2
Sibling(b2) == <<At(frame, 0), At(frame, 1), b2, 255 - b2>>

C18_OnOffSameDevice ==
    (impl = "setup" /\ routed /\ ChecksumFrame /\ R2 \in {17, 25}) =>
        LET on == X10Event(Sibling(136))
            off == X10Event(Sibling(152))
        IN  /\ on.raised = "no" /\ off.raised = "no"
            /\ on.command = "On" /\ off.command = "Off"
            /\ on.house_code = off.house_code
            /\ on.unit_number = off.unit_number
            /\ on.device = off.device
            /\ Len(emitted) = 1
            /\ IsX10Call(emitted[1])
            /\ emitted[1].event.device = on.device
            /\ emitted[1].event.command = (IF R2 = 17 THEN "On" ELSE "Off")

C18_Witness ==
    /\ impl = "setup"
    /\ routed
    /\ ChecksumFrame
    /\ R2 = 17
    /\ Len(emitted) = 1
    /\ emitted[1].event.command = "On"
    /\ emitted[1].event.device = X10Event(Sibling(152)).device
    /\ X10Event(Sibling(152)).command = "Off"

(***************************************************************************)
(* C19: every security event dispatched by setup's read loop has           *)
(* min_delay true.                                                         *)
(***************************************************************************)
C19_SetupMinDelayTrue ==
    (impl = "setup" /\ routed) =>
        \A i \in 1..Len(emitted) :
            IsSecurityCall(emitted[i]) => emitted[i].event.min_delay

C19_Witness ==
    /\ impl = "setup"
    /\ routed
    /\ Len(emitted) = 1
    /\ IsSecurityCall(emitted[1])
    /\ emitted[1].event.min_delay
    /\ Bit(At(frame, 1), 4) = 1

(***************************************************************************)
(* The connection lifecycle and the acquisition workers                    *)
(***************************************************************************)
MaxWorkers == 2

\* what a read(4) that returns can hand back: full frames (a security
\* report, noise) and short reads (timeout, partial)
ReadData == {<<\h56, \h55, \h81, \h00>>, <<\h06, \hFA, \h00, \hFF>>,
             <<>>, <<\h56, \h55>>}

Worker(w) == workers[w]

is_alive(t) == workers[t].pc # "done"

\* a thread at the head of its read loop; data is the local `data` once a
\* full frame was read; lateRead and lateSink say that the thread has called
\* read, or the sink, while the running flag was false
NewWorker == [pc |-> "while", data |-> <<>>, lateRead |-> FALSE, lateSink |-> FALSE]

\* the thread moves on in the loop, or has left it
SetWorker(w, pc) ==
    IF pc = "done" THEN [workers EXCEPT ![w] = [NewWorker EXCEPT !.pc = "done"]]
    ELSE [workers EXCEPT ![w].pc = pc, ![w].data = <<>>]

\* one more call made by a thread: marked when the flag is false
Late(b) == b \/ ~running

\* the running flag is set again: the marks start over
Restarted == [i \in DOMAIN workers |->
                 [workers[i] EXCEPT !.lateRead = FALSE, !.lateSink = FALSE]]

\* the record of a read that ended
Ended(w, outcome, data, decoded, calls, raised) ==
    [worker |-> w, outcome |-> outcome, data |-> data, decoded |-> decoded,
     calls |-> calls, raised |-> raised, overtook |-> FALSE]

\* the sink calls the read loop in use makes for one full frame
SinkCalls(data) ==
    IF impl = "setup" THEN read_loop_dispatch(data) ELSE _read_loop_callback(data)

\* a thread that read its frame before w did still holds an event not yet
\* handed to the sink
Overtakes(w) ==
    \E i \in 1..Len(pending), j \in 1..Len(pending) :
        /\ i < j
        /\ pending[j] = w
        /\ SinkCalls(Worker(pending[i]).data) # <<>>

Init ==
    /\ impl \in {"setup", "lib"}
    /\ serial = "None"
    /\ running = FALSE
    /\ thread = 0
    /\ workers = <<>>
    /\ event_callback \in (IF impl = "lib" THEN BOOLEAN ELSE {TRUE})
    /\ callerPc = "idle"
    /\ lastOp = "none"
    /\ fired = {}
    /\ last = NoRead
    /\ pending = <<>>
    /\ sensors = <<>>
    /\ frame = <<>>
    /\ routed = FALSE
    /\ emitted = <<>>

\* lastOp after disconnect / stop_connection has returned; "disconnect_again"
\* when the call before it was one too
Disconnected == {"disconnect", "disconnect_again"}

----------------------------------------------------------------------------
\* variant of connect: the running flag set before the port is opened
connect_running_first(ok) ==
    /\ impl = "lib"
    /\ callerPc = "idle"
    /\ running' = TRUE
    /\ IF ok
       THEN /\ Len(workers) < MaxWorkers
            /\ serial' = "open"
            /\ workers' = Append(Restarted, NewWorker)
            /\ thread' = Len(workers) + 1
            /\ lastOp' = "connect_True"
       ELSE /\ lastOp' = "connect_False"
            /\ UNCHANGED <<serial, workers, thread>>
    /\ last' = NoRead
    /\ UNCHANGED <<impl, sensors, event_callback, callerPc, fired, pending, decVars>>

\* W800rf32.connect: ok says whether serial.Serial(...) opens the port
connect(ok) ==
    /\ impl = "lib"
    /\ callerPc = "idle"
    /\ IF ok
       THEN /\ Len(workers) < MaxWorkers
            /\ serial' = "open"
            /\ running' = TRUE
            /\ workers' = Append(Restarted, NewWorker)
            /\ thread' = Len(workers) + 1
            /\ lastOp' = "connect_True"
       ELSE /\ lastOp' = "connect_False"
            /\ UNCHANGED <<serial, running, workers, thread>>
    /\ last' = NoRead
    /\ UNCHANGED <<impl, sensors, event_callback, callerPc, fired, pending, decVars>>

\* W800rf32.disconnect, up to the join
disconnect_begin ==
    /\ impl = "lib"
    /\ callerPc = "idle"
    /\ running' = FALSE
    /\ callerPc' = IF thread # 0 /\ is_alive(thread) THEN "join" ELSE "close"
    /\ last' = NoRead
    /\ UNCHANGED <<impl, sensors, serial, thread, workers, event_callback, lastOp, fired, pending, decVars>>

\* join(timeout=2) returns: the worker has finished, or the timeout expired
disconnect_join ==
    /\ impl = "lib"
    /\ callerPc = "join"
    /\ callerPc' = "close"
    /\ last' = NoRead
    /\ UNCHANGED <<impl, sensors, connVars, workers, event_callback, lastOp, fired, pending, decVars>>

\* variant of disconnect_close: the close nested under the is_alive test
disconnect_close_nested ==
    /\ impl = "lib"
    /\ callerPc = "close"
    /\ serial' = IF thread # 0 /\ is_alive(thread) /\ serial = "open" THEN "closed" ELSE serial
    /\ callerPc' = "idle"
    /\ lastOp' = IF lastOp \in Disconnected THEN "disconnect_again" ELSE "disconnect"
    /\ last' = NoRead
    /\ UNCHANGED <<impl, sensors, running, thread, workers, event_callback, fired, pending, decVars>>

\* the close of the port and the return of disconnect
disconnect_close ==
    /\ impl = "lib"
    /\ callerPc = "close"
    /\ serial' = IF serial # "None" /\ serial = "open" THEN "closed" ELSE serial
    /\ callerPc' = "idle"
    /\ lastOp' = IF lastOp \in Disconnected THEN "disconnect_again" ELSE "disconnect"
    /\ last' = NoRead
    /\ UNCHANGED <<impl, sensors, running, thread, workers, event_callback, fired, pending, decVars>>

\* setup.start_connection, registered with listen_once
start_connection(ok) ==
    /\ impl = "setup"
    /\ callerPc = "idle"
    /\ "start" \notin fired
    /\ fired' = fired \cup {"start"}
    /\ IF ok
       THEN /\ serial' = "open"
            /\ running' = TRUE
            /\ workers' = Append(Restarted, NewWorker)
            /\ thread' = Len(workers) + 1
            /\ lastOp' = "start_ok"
       ELSE /\ lastOp' = "start_failed"
            /\ UNCHANGED <<serial, running, workers, thread>>
    /\ last' = NoRead
    /\ UNCHANGED <<impl, sensors, event_callback, callerPc, pending, decVars>>

\* setup.stop_connection, registered with listen_once, up to the join
stop_connection_begin ==
    /\ impl = "setup"
    /\ callerPc = "idle"
    /\ "stop" \notin fired
    /\ fired' = fired \cup {"stop"}
    /\ running' = FALSE
    /\ callerPc' = IF thread # 0 /\ is_alive(thread) THEN "join" ELSE "close"
    /\ last' = NoRead
    /\ UNCHANGED <<impl, sensors, serial, thread, workers, event_callback, lastOp, pending, decVars>>

stop_connection_join ==
    /\ impl = "setup"
    /\ callerPc = "join"
    /\ callerPc' = "close"
    /\ last' = NoRead
    /\ UNCHANGED <<impl, sensors, connVars, workers, event_callback, lastOp, fired, pending, decVars>>

stop_connection_close ==
    /\ impl = "setup"
    /\ callerPc = "close"
    /\ serial' = IF serial # "None" /\ serial = "open" THEN "closed" ELSE serial
    /\ callerPc' = "idle"
    /\ lastOp' = IF lastOp \in Disconnected THEN "disconnect_again" ELSE "disconnect"
    /\ last' = NoRead
    /\ UNCHANGED <<impl, sensors, running, thread, workers, event_callback, fired, pending, decVars>>

----------------------------------------------------------------------------
\* variant of _read_loop_while: `while True`, the loop left by exceptions only
_read_loop_while_true(w) ==
    /\ impl = "lib"
    /\ Worker(w).pc = "while"
    /\ workers' = SetWorker(w, "call")
    /\ last' = NoRead
    /\ UNCHANGED <<impl, sensors, connVars, event_callback, callerPc, lastOp, fired, pending, decVars>>

\* W800rf32._read_loop: `while self._running`
_read_loop_while(w) ==
    /\ impl = "lib"
    /\ Worker(w).pc = "while"
    /\ workers' = IF running THEN SetWorker(w, "call")
                  ELSE SetWorker(w, "done")
    /\ last' = NoRead
    /\ UNCHANGED <<impl, sensors, connVars, event_callback, callerPc, lastOp, fired, pending, decVars>>

\* the call self._serial.read(4): a port that is not open raises at once
\* (PortNotOpenError, a SerialException), an open port blocks the worker
_read_loop_call(w) ==
    /\ impl = "lib"
    /\ Worker(w).pc = "call"
    /\ IF serial = "open"
       THEN /\ workers' = [SetWorker(w, "read") EXCEPT ![w].lateRead = Late(@)]
            /\ last' = NoRead
       ELSE /\ workers' = SetWorker(w, "done")
            /\ last' = Ended(w, "SerialException", <<>>, FALSE, <<>>, FALSE)
    /\ UNCHANGED <<impl, sensors, connVars, event_callback, callerPc, lastOp, fired, pending, decVars>>

\* the read returns bytes: a full frame is kept in `data` for lines 87-91,
\* anything else goes back to the loop test
_read_loop_data(w, data) ==
    /\ impl = "lib"
    /\ Worker(w).pc = "read"
    /\ last' = Ended(w, "data", data, FALSE, <<>>, FALSE)
    /\ IF Len(data) = 4
       THEN /\ workers' = [workers EXCEPT ![w].pc = "process", ![w].data = data]
            /\ pending' = Append(pending, w)
       ELSE /\ workers' = SetWorker(w, "while")
            /\ UNCHANGED pending
    /\ UNCHANGED <<impl, sensors, connVars, event_callback, callerPc, lastOp, fired, decVars>>

\* lines 87-91 on the frame read: _process_packet and the callback, then
\* the next iteration; an exception of the callback breaks the loop (line 95)
_read_loop_process(w, raises) ==
    /\ impl = "lib"
    /\ Worker(w).pc = "process"
    /\ LET data == Worker(w).data
           calls == _read_loop_callback(data)
       IN  /\ Len(calls) = 0 => ~raises
           /\ last' = [Ended(w, "data", data, TRUE, calls, raises)
                          EXCEPT !.overtook = (calls # <<>> /\ Overtakes(w))]
           /\ workers' = IF raises THEN SetWorker(w, "done")
                         ELSE [SetWorker(w, "while")
                                 EXCEPT ![w].lateSink = IF calls = <<>> THEN @ ELSE Late(@)]
    /\ pending' = SelectSeq(pending, LAMBDA v : v # w)
    /\ UNCHANGED <<impl, sensors, connVars, event_callback, callerPc, lastOp, fired, decVars>>

\* the read raises: serial.SerialException or any other Exception, both break
_read_loop_raise(w, exc) ==
    /\ impl = "lib"
    /\ Worker(w).pc = "read"
    /\ last' = Ended(w, exc, <<>>, FALSE, <<>>, FALSE)
    /\ workers' = SetWorker(w, "done")
    /\ UNCHANGED <<impl, sensors, connVars, event_callback, callerPc, lastOp, fired, pending, decVars>>

----------------------------------------------------------------------------
\* setup.read_loop: `while connection_state['running']`
read_loop_while(w) ==
    /\ impl = "setup"
    /\ Worker(w).pc = "while"
    /\ workers' = IF running THEN SetWorker(w, "call")
                  ELSE SetWorker(w, "done")
    /\ last' = NoRead
    /\ UNCHANGED <<impl, sensors, connVars, event_callback, callerPc, lastOp, fired, pending, decVars>>

\* the call connection_state['serial'].read(4)
read_loop_call(w) ==
    /\ impl = "setup"
    /\ Worker(w).pc = "call"
    /\ IF serial = "open"
       THEN /\ workers' = [SetWorker(w, "read") EXCEPT ![w].lateRead = Late(@)]
            /\ last' = NoRead
       ELSE /\ workers' = SetWorker(w, "done")
            /\ last' = Ended(w, "SerialException", <<>>, FALSE, <<>>, FALSE)
    /\ UNCHANGED <<impl, sensors, connVars, event_callback, callerPc, lastOp, fired, pending, decVars>>

\* variant of read_loop_data: only an empty read is skipped
read_loop_data_empty_only(w, data) ==
    /\ impl = "setup"
    /\ Worker(w).pc = "read"
    /\ last' = Ended(w, "data", data, FALSE, <<>>, FALSE)
    /\ IF Len(data) = 0
       THEN /\ workers' = SetWorker(w, "while")
            /\ UNCHANGED pending
       ELSE /\ workers' = [workers EXCEPT ![w].pc = "process", ![w].data = data]
            /\ pending' = Append(pending, w)
    /\ UNCHANGED <<impl, sensors, connVars, event_callback, callerPc, lastOp, fired, decVars>>

\* the read returns bytes: line 160 sends anything but a full frame back to
\* the loop test, a full frame is kept in `data` for lines 163-187
read_loop_data(w, data) ==
    /\ impl = "setup"
    /\ Worker(w).pc = "read"
    /\ last' = Ended(w, "data", data, FALSE, <<>>, FALSE)
    /\ IF Len(data) # 4
       THEN /\ workers' = SetWorker(w, "while")
            /\ UNCHANGED pending
       ELSE /\ workers' = [workers EXCEPT ![w].pc = "process", ![w].data = data]
            /\ pending' = Append(pending, w)
    /\ UNCHANGED <<impl, sensors, connVars, event_callback, callerPc, lastOp, fired, decVars>>

\* lines 163-187 on the frame read: the parsers and dispatcher_send, then
\* the next iteration; an exception of dispatcher_send is caught by line 192
\* and the loop goes on
read_loop_process(w, raises) ==
    /\ impl = "setup"
    /\ Worker(w).pc = "process"
    /\ LET data == Worker(w).data
           calls == read_loop_dispatch(data)
       IN  /\ Len(calls) = 0 => ~raises
           /\ last' = [Ended(w, "data", data, TRUE, calls, raises)
                          EXCEPT !.overtook = (calls # <<>> /\ Overtakes(w))]
           /\ workers' = [SetWorker(w, "while")
                             EXCEPT ![w].lateSink = IF calls = <<>> THEN @ ELSE Late(@)]
    /\ pending' = SelectSeq(pending, LAMBDA v : v # w)
    /\ UNCHANGED <<impl, sensors, connVars, event_callback, callerPc, lastOp, fired, decVars>>

\* the read raises: serial.SerialException breaks, any other Exception is
\* logged and the loop goes on
read_loop_raise(w, exc) ==
    /\ impl = "setup"
    /\ Worker(w).pc = "read"
    /\ last' = Ended(w, exc, <<>>, FALSE, <<>>, FALSE)
    /\ workers' = IF exc = "SerialException" THEN SetWorker(w, "done")
                  ELSE SetWorker(w, "while")
    /\ UNCHANGED <<impl, sensors, connVars, event_callback, callerPc, lastOp, fired, pending, decVars>>

----------------------------------------------------------------------------
Exceptions == {"SerialException", "Exception"}

Next ==
    \/ \E ok \in BOOLEAN : connect(ok)
    \/ disconnect_begin
    \/ disconnect_join
    \/ disconnect_close
    \/ \E ok \in BOOLEAN : start_connection(ok)
    \/ stop_connection_begin
    \/ stop_connection_join
    \/ stop_connection_close
    \/ \E w \in 1..Len(workers) : _read_loop_while(w)
    \/ \E w \in 1..Len(workers) : _read_loop_call(w)
    \/ \E w \in 1..Len(workers), data \in ReadData : _read_loop_data(w, data)
    \/ \E w \in 1..Len(workers), raises \in BOOLEAN : _read_loop_process(w, raises)
    \/ \E w \in 1..Len(workers), exc \in Exceptions : _read_loop_raise(w, exc)
    \/ \E w \in 1..Len(workers) : read_loop_while(w)
    \/ \E w \in 1..Len(workers) : read_loop_call(w)
    \/ \E w \in 1..Len(workers), data \in ReadData : read_loop_data(w, data)
    \/ \E w \in 1..Len(workers), raises \in BOOLEAN : read_loop_process(w, raises)
    \/ \E w \in 1..Len(workers), exc \in Exceptions : read_loop_raise(w, exc)

Spec == Init /\ [][Next]_vars

(***************************************************************************)
(* C4: a serial read that raises SerialException ends the read loop and    *)
(* leaves the running flag false, with no disconnect call.                 *)
(***************************************************************************)
C4_IOErrorClearsRunning ==
    [][(last'.outcome = "SerialException" /\ last'.worker = thread) =>
          (workers'[thread].pc = "done" /\ ~running')]_vars

(***************************************************************************)
(* C5: after any sequence of connect and disconnect calls on one W800rf32  *)
(* instance, at most one worker thread is executing the read loop.         *)
(***************************************************************************)
AliveWorkers == {w \in 1..Len(workers) : is_alive(w)}

C5_AtMostOneWorker == impl = "lib" => Cardinality(AliveWorkers) <= 1

(***************************************************************************)
(* C6: disconnect / stop_connection returns from every state with running  *)
(* false and the port closed, and a disconnect that directly follows a     *)
(* disconnect changes nothing of the connection state.                     *)
(***************************************************************************)
C6_DisconnectIdempotent ==
    /\ []((lastOp \in Disconnected /\ callerPc = "idle") => (~running /\ serial # "open"))
    /\ []((callerPc = "idle" /\ impl = "lib") => ENABLED disconnect_begin)
    /\ [][(lastOp \in Disconnected /\ callerPc' # callerPc)
            => UNCHANGED <<connVars, workers, pending>>]_vars

C6_Witness ==
    /\ lastOp = "disconnect_again"
    /\ callerPc = "idle"
    /\ thread # 0
    /\ ~is_alive(thread)
    /\ serial = "closed"

(***************************************************************************)
(* C7: when the serial port cannot be opened, connect returns False (and   *)
(* start_connection only logs), no thread is started and the connection    *)
(* state is left as it was: from idle, running stays false and no port is  *)
(* open.                                                                   *)
(***************************************************************************)
C7_ConnectFailureStaysIdle ==
    [][(connect(FALSE) \/ start_connection(FALSE)) =>
          /\ UNCHANGED <<serial, running, thread, workers>>
          /\ lastOp' \in {"connect_False", "start_failed"}
          /\ (serial = "None" /\ ~running) => (serial' = "None" /\ ~running')]_vars

C7_Witness ==
    /\ lastOp \in {"connect_False", "start_failed"}
    /\ serial = "None"
    /\ ~running
    /\ thread = 0
    /\ workers = <<>>

(***************************************************************************)
(* C8: a read that returns fewer than 4 bytes causes no decoder call and   *)
(* no sink invocation in that iteration; the worker goes back to the loop  *)
(* test and the running flag is unchanged.                                 *)
(***************************************************************************)
C8_ShortReadIsNoOp ==
    [][/\ last'.decoded => Len(last'.data) = 4
       /\ \A w \in 1..Len(workers) :
          (/\ Worker(w).pc = "read"
           /\ workers'[w].pc # "read"
           /\ last'.outcome = "data"
           /\ Len(last'.data) < 4)
          => (/\ last'.worker = w
              /\ ~last'.decoded
              /\ last'.calls = <<>>
              /\ running' = running
              /\ workers'[w].pc = "while")]_vars

C8_Witness ==
    /\ last.outcome = "data"
    /\ Len(last.data) = 2
    /\ ~last.decoded
    /\ running
    /\ Worker(last.worker).pc = "while"

(***************************************************************************)
(* C13: where a sink is set, a full frame read by a worker is handled by   *)
(* that worker before its next read: one sink call carrying the decoded    *)
(* event when the frame decodes to one, no call when it decodes to         *)
(* nothing; and no event reaches the sink ahead of an event whose frame    *)
(* was read earlier.                                                       *)
(***************************************************************************)
SinkPresent == impl = "setup" \/ event_callback

\* the event the decoders of the pipeline in use give for a full frame
DecodesTo(data) ==
    IF impl = "lib" THEN _process_packet(data)
    ELSE IF parse(data) # None THEN parse(data)
    ELSE IF X10Event(data).raised = "no"
         THEN [device |-> X10Event(data).device, command |-> X10Event(data).command]
    ELSE None

C13_OneSinkCallInReadOrder ==
    /\ [](~last.overtook)
    /\ [][\A w \in 1..Len(workers) :
            /\ (/\ Worker(w).pc = "read"
                /\ last'.worker = w
                /\ last'.outcome = "data"
                /\ Len(last'.data) = 4)
               => (workers'[w].pc = "process" /\ workers'[w].data = last'.data)
            /\ (Worker(w).pc = "process" /\ SinkPresent)
               => \/ workers'[w].pc = "process"
                  \/ /\ last'.worker = w
                     /\ last'.data = Worker(w).data
                     /\ IF DecodesTo(Worker(w).data) = None
                        THEN last'.calls = <<>>
                        ELSE /\ Len(last'.calls) = 1
                             /\ last'.calls[1].event = DecodesTo(Worker(w).data)]_vars

(***************************************************************************)
(* Fair scheduling: every started thread keeps taking steps (a blocking    *)
(* read returns after at most its 1 s timeout or raises, the sink          *)
(* returns), and a disconnect / stop_connection under way goes on (the     *)
(* join returns after at most 2 s, the close returns).  Nothing obliges    *)
(* the caller to begin a call.                                             *)
(***************************************************************************)
WorkerStep(w) ==
    /\ w <= Len(workers)
    /\ \/ _read_loop_while(w)
       \/ _read_loop_call(w)
       \/ \E data \in ReadData : _read_loop_data(w, data)
       \/ \E raises \in BOOLEAN : _read_loop_process(w, raises)
       \/ \E exc \in Exceptions : _read_loop_raise(w, exc)
       \/ read_loop_while(w)
       \/ read_loop_call(w)
       \/ \E data \in ReadData : read_loop_data(w, data)
       \/ \E raises \in BOOLEAN : read_loop_process(w, raises)
       \/ \E exc \in Exceptions : read_loop_raise(w, exc)

CallerStep ==
    \/ disconnect_join
    \/ disconnect_close
    \/ stop_connection_join
    \/ stop_connection_close

Fairness ==
    /\ \A w \in 1..MaxWorkers : WF_vars(WorkerStep(w))
    /\ WF_vars(CallerStep)

SpecLive == Init /\ [][Next]_vars /\ Fairness

(***************************************************************************)
(* C14: once disconnect / stop_connection has been called on a running     *)
(* connection, the worker of that connection eventually leaves its read    *)
(* loop and the port is eventually closed.                                 *)
(***************************************************************************)
C14_DisconnectStopsWorker ==
    \A w \in 1..MaxWorkers :
        /\ (callerPc # "idle" /\ thread = w) ~> (w <= Len(workers) /\ ~is_alive(w))
        /\ (callerPc # "idle" /\ thread = w) ~> (serial # "open")

(***************************************************************************)
(* C20: once disconnect / stop_connection has cleared the running flag,    *)
(* and until a connect sets it again, a worker calls read at most once     *)
(* more and calls the sink at most once more, also when the join timed     *)
(* out and the call has returned with the worker still in its read.        *)
(***************************************************************************)
C20_AtMostOneLateReadAndSink ==
    [][\A w \in 1..Len(workers) :
          /\ (~running /\ Worker(w).pc = "call" /\ workers'[w].pc # "call")
                => ~Worker(w).lateRead
          /\ (/\ ~running
              /\ Worker(w).pc = "process"
              /\ workers'[w].pc # "process"
              /\ last'.calls # <<>>)
                => ~Worker(w).lateSink]_vars

C20_Witness ==
    /\ lastOp \in Disconnected
    /\ callerPc = "idle"
    /\ ~running
    /\ serial = "closed"
    /\ \E w \in 1..Len(workers) :
          /\ Worker(w).pc = "while"
          /\ Worker(w).lateRead
          /\ Worker(w).lateSink

(***************************************************************************)
(* C21: an exception raised by the sink while it handles an event does not *)
(* end the read loop: the worker that made the call goes back to the loop  *)
(* test, in W800rf32._read_loop and in setup's read_loop alike.            *)
(***************************************************************************)
C21_SinkExceptionKeepsReading ==
    [][\A w \in 1..Len(workers) :
          (/\ Worker(w).pc = "process"
           /\ workers'[w].pc # "process"
           /\ last'.worker = w
           /\ last'.raised)
          => (workers'[w].pc = "while" /\ running' = running)]_vars

(***************************************************************************)
(* src/binary_sensor.py: the binary sensors and their off-delay timers     *)
(***************************************************************************)
MaxSensors == 2

\* entity.get(CONF_OFF_DELAY) after DEVICE_SCHEMA: None when the key is
\* absent, else a timedelta that is not negative (cv.positive_timedelta
\* refuses only value < timedelta(0))
OffDelays == {None, [seconds |-> 0], [seconds |-> 5]}

\* bool(off_delay): None and timedelta(0) are false
TruthyDelay(off_delay) == off_delay # None /\ off_delay.seconds # 0

\* timers counts the calls evt.async_call_later holds for the entity that
\* were neither run nor cancelled; _delay_listener is TRUE when the
\* attribute holds a cancel handle, FALSE when it is None
W800rf32BinarySensor(device_id, off_delay) ==
    [class |-> "W800rf32BinarySensor",
     _signal |-> W800RF32_DEVICE(device_id),
     _off_delay |-> off_delay,
     _state |-> FALSE,
     _delay_listener |-> FALSE,
     timers |-> 0]

W800SecuritySensor(address, off_delay) ==
    [class |-> "W800SecuritySensor",
     _address |-> address,
     _off_delay |-> off_delay,
     _attr_is_on |-> FALSE,
     _attr_extra_state_attributes |-> None,
     _delay_listener |-> FALSE,
     timers |-> 0]

\* the entity one entry of config[CONF_DEVICES] makes
async_setup_platform(device_id, device_type, off_delay) ==
    IF device_type = "security"
    THEN W800SecuritySensor(Lower(device_id), off_delay)
    ELSE W800rf32BinarySensor(Lower(device_id), off_delay)

\* the property is_on of either class
is_on(sensor) ==
    IF sensor.class = "W800rf32BinarySensor" THEN sensor._state
    ELSE sensor._attr_is_on

\* W800rf32BinarySensor.binary_sensor_update: the entity after the call
binary_sensor_update_entity(self, event) ==
    IF ~({"device", "command"} \subseteq DOMAIN event) THEN self
    ELSE LET command == event.command
             updated == IF command \in {"On", "Off"}
                        THEN [self EXCEPT !._state = (command = "On")]
                        ELSE self
         IN  IF /\ updated._state
                /\ updated._off_delay # None
                /\ ~updated._delay_listener
             THEN [updated EXCEPT !._delay_listener = TRUE, !.timers = @ + 1]
             ELSE updated

\* W800SecuritySensor._cancel_off_delay
_cancel_off_delay(self) ==
    IF self._delay_listener
    THEN [self EXCEPT !.timers = @ - 1, !._delay_listener = FALSE]
    ELSE self

\* W800SecuritySensor._schedule_off_delay
_schedule_off_delay(self) ==
    LET cancelled == _cancel_off_delay(self)
    IN  IF TruthyDelay(cancelled._off_delay)
        THEN [cancelled EXCEPT !._delay_listener = TRUE, !.timers = @ + 1]
        ELSE cancelled

\* W800SecuritySensor._handle_event: the entity after the call; the
\* attribute last_update (a clock reading) is left out
_handle_event_entity(self, event) ==
    IF "device_type" \notin DOMAIN event \/ event.device_type # "ds10a" THEN self
    ELSE IF event.address # self._address THEN self
    ELSE LET updated ==
                 [self EXCEPT
                     !._attr_is_on = (event.state = "open"),
                     !._attr_extra_state_attributes =
                         [low_battery |-> event.low_battery,
                          min_delay |-> event.min_delay]]
         IN  IF updated._attr_is_on THEN _schedule_off_delay(updated)
             ELSE _cancel_off_delay(updated)

\* frames whose events reach the configured entities: M9 On, Off and a
\* command-less M9 frame, M10 On, address 65 open / closed with and
\* without low battery, address 00 open
SensorFrames == {<<\h06, \hF9, \h00, \hFF>>, <<\h06, \hF9, \h20, \hDF>>,
                 <<\h06, \hF9, \h80, \h7F>>, <<\h06, \hF9, \h10, \hEF>>,
                 <<\h56, \h55, \h00, \h00>>, <<\h56, \h55, \h80, \h00>>,
                 <<\h56, \h55, \h01, \h00>>, <<\h56, \h55, \h81, \h00>>,
                 <<\h00, \h00, \h00, \h00>>}

\* the keys of config[CONF_DEVICES] with their device_type
SensorDevices == {<<<<"M", "9">>, "x10">>, <<<<"6", "5">>, "security">>}

\* async_dispatcher_connect in async_added_to_hass: the signal the entity
\* listens to
Subscription(sensor) ==
    IF sensor.class = "W800rf32BinarySensor" THEN sensor._signal
    ELSE SIGNAL_SECURITY_EVENT

InitSensors ==
    /\ impl = "setup"
    /\ IdleConnection
    /\ frame = <<>>
    /\ routed = FALSE
    /\ emitted = <<>>
    /\ sensors \in UNION {[1..n -> {async_setup_platform(d[1], d[2], off_delay) :
                                       d \in SensorDevices, off_delay \in OffDelays}] :
                          n \in 1..MaxSensors}

\* the dispatcher delivers the event of one routed frame to a
\* W800rf32BinarySensor subscribed to its signal
binary_sensor_update(i, data) ==
    /\ sensors[i].class = "W800rf32BinarySensor"
    /\ \E n \in 1..Len(read_loop_dispatch(data)) :
          LET call == read_loop_dispatch(data)[n]
          IN  /\ call.signal = Subscription(sensors[i])
              /\ sensors' = [sensors EXCEPT
                                ![i] = binary_sensor_update_entity(@, call.event)]
    /\ UNCHANGED <<impl, lifeVars, decVars>>

\* the timer of a W800rf32BinarySensor fires
_off_delay_listener(i) ==
    /\ sensors[i].class = "W800rf32BinarySensor"
    /\ sensors[i].timers > 0
    /\ sensors' = [sensors EXCEPT ![i]._delay_listener = FALSE,
                                  ![i]._state = FALSE,
                                  ![i].timers = @ - 1]
    /\ UNCHANGED <<impl, lifeVars, decVars>>

\* the dispatcher delivers the event of one routed frame to a
\* W800SecuritySensor
_handle_event(i, data) ==
    /\ sensors[i].class = "W800SecuritySensor"
    /\ \E n \in 1..Len(read_loop_dispatch(data)) :
          LET call == read_loop_dispatch(data)[n]
          IN  /\ call.signal = Subscription(sensors[i])
              /\ sensors' = [sensors EXCEPT
                                ![i] = _handle_event_entity(@, call.event)]
    /\ UNCHANGED <<impl, lifeVars, decVars>>

\* the timer of a W800SecuritySensor fires
turn_off(i) ==
    /\ sensors[i].class = "W800SecuritySensor"
    /\ sensors[i].timers > 0
    /\ sensors' = [sensors EXCEPT ![i]._attr_is_on = FALSE,
                                  ![i]._delay_listener = FALSE,
                                  ![i].timers = @ - 1]
    /\ UNCHANGED <<impl, lifeVars, decVars>>

NextSensors ==
    \/ \E i \in 1..Len(sensors), data \in SensorFrames : binary_sensor_update(i, data)
    \/ \E i \in 1..Len(sensors) : _off_delay_listener(i)
    \/ \E i \in 1..Len(sensors), data \in SensorFrames : _handle_event(i, data)
    \/ \E i \in 1..Len(sensors) : turn_off(i)

SpecSensors == InitSensors /\ [][NextSensors]_vars

(***************************************************************************)
(* C22: a binary sensor configured with an off_delay, of either class, has *)
(* exactly one off-delay timer pending whenever it is on, after any        *)
(* sequence of received events and timer firings, and a timer that fires   *)
(* leaves the sensor off.                                                  *)
(***************************************************************************)
C22_OnHasOneTimerPending ==
    /\ [](\A i \in 1..Len(sensors) :
             (sensors[i]._off_delay # None /\ is_on(sensors[i]))
                => (sensors[i].timers = 1 /\ sensors[i]._delay_listener))
    /\ [][\A i \in 1..Len(sensors) :
             sensors'[i].timers < sensors[i].timers /\ is_on(sensors[i])
                => ~is_on(sensors'[i])]_vars

====
